---- MODULE Spec2Model ----
(***************************************************************************)
(* Pen and Paper (src/main.py): the canvas display list, the undo/redo     *)
(* snapshot stacks, the .pnp persistence codec and the event handlers of   *)
(* PenAndPaperApp / DrawingCanvas / Toolbar, as a state machine.           *)
(*                                                                         *)
(* One Tk event loop dispatches the handlers serially, so every handler is *)
(* one atomic action; a modal dialog opened by a handler is answered       *)
(* inside that handler, and its answer is an input of the action.          *)
(*                                                                         *)
(* Geometry is kept in half-pixels (a coordinate c of the program is the   *)
(* integer 2*c here), which makes brush_size / 2 of _on_press exact.       *)
(* Tk item ids are not modelled: an item is identified by its place in the *)
(* display list, which is the order find_all() returns.                    *)
(***************************************************************************)
EXTENDS Integers, Sequences, FiniteSets, TLC

(***************************************************************************)
(* Bounds of the model.                                                    *)
(***************************************************************************)
\* Items the canvas may hold: pencil and fill events are not taken beyond it.
MaxItems == 2
\* The capacity of undo_stack. The program's literal is 50 (main.py:85); the
\* model runs _save_undo_snapshot with this smaller capacity so that a full
\* stack, and the eviction of its oldest entry, are reached.
UndoLimit == 2
\* The canvas viewport, in pixels (winfo_width() x winfo_height()).
ViewW == 10
ViewH == 10

(***************************************************************************)
(* Values.                                                                 *)
(***************************************************************************)
None == "None"
NoPoint == <<>>
EmptyDict == [k \in {} |-> 0]
Black == "#000000"
Red == "#ff0000"

\* dict.get(key, default)
Get(d, key, default) == IF key \in DOMAIN d THEN d[key] ELSE default

Min2(a, b) == IF a < b THEN a ELSE b
Max2(a, b) == IF a > b THEN a ELSE b

(***************************************************************************)
(* The Tk canvas: a display list of items, bottom first.  An item holds    *)
(* its type, its coordinates and the options its create_* call set.        *)
(***************************************************************************)
\* Tk keeps the corners of an oval or rectangle ordered.
NormBox(c) ==
    << Min2(c[1], c[3]), Min2(c[2], c[4]), Max2(c[1], c[3]), Max2(c[2], c[4]) >>

\* Whether Tk accepts the coordinate list (it raises TclError otherwise).
CoordsOK(type, coords) ==
    IF type = "line" THEN Len(coords) >= 4 /\ Len(coords) % 2 = 0
    ELSE Len(coords) = 4

create_line(coords, fill, width, capstyle) ==
    [type |-> "line", coords |-> coords,
     opts |-> [fill |-> fill, width |-> width, capstyle |-> capstyle,
               smooth |-> TRUE, tags |-> "drawing"]]

create_oval(coords, fill, outline) ==
    [type |-> "oval", coords |-> NormBox(coords),
     opts |-> [fill |-> fill, outline |-> outline, tags |-> "drawing"]]

create_rectangle(coords, fill, outline) ==
    [type |-> "rectangle", coords |-> NormBox(coords),
     opts |-> [fill |-> fill, outline |-> outline, tags |-> "drawing"]]

\* tag_lower(item): the item at place i goes to the bottom of the list.
tag_lower(items, i) ==
    <<items[i]>> \o SubSeq(items, 1, i - 1) \o SubSeq(items, i + 1, Len(items))

\* The items of a sequence at the places in keep, order kept.
RECURSIVE SelectPlaces(_, _, _)
SelectPlaces(items, keep, i) ==
    IF i > Len(items) THEN <<>>
    ELSE (IF i \in keep THEN <<items[i]>> ELSE <<>>)
         \o SelectPlaces(items, keep, i + 1)

\* bbox(item): the hull of the coordinates, widened by half the line width
\* (a line) or half the one-pixel outline (an oval, a rectangle).
Xs(coords) == {coords[i] : i \in {j \in DOMAIN coords : j % 2 = 1}}
Ys(coords) == {coords[i] : i \in {j \in DOMAIN coords : j % 2 = 0}}
SetMin(S) == CHOOSE m \in S : \A n \in S : m <= n
SetMax(S) == CHOOSE m \in S : \A n \in S : m >= n
Bloat(item) == IF item.type = "line" THEN item.opts.width ELSE 1
bbox(item) ==
    << SetMin(Xs(item.coords)) - Bloat(item), SetMin(Ys(item.coords)) - Bloat(item),
       SetMax(Xs(item.coords)) + Bloat(item), SetMax(Ys(item.coords)) + Bloat(item) >>

\* find_overlapping(x1, y1, x2, y2): the places of the items that meet the box.
find_overlapping(items, x1, y1, x2, y2) ==
    {i \in DOMAIN items :
        LET b == bbox(items[i])
        IN b[1] <= x2 /\ x1 <= b[3] /\ b[2] <= y2 /\ y1 <= b[4]}

(***************************************************************************)
(* DrawingCanvas.serialize / deserialize                                   *)
(***************************************************************************)
serialize_item(item) ==
    [type |-> item.type,
     coords |-> item.coords,
     config |->
        IF item.type = "line"
        THEN [fill |-> item.opts.fill, width |-> item.opts.width,
              capstyle |-> item.opts.capstyle]
        ELSE [fill |-> item.opts.fill, outline |-> item.opts.outline]]

serialize(items) == [i \in 1..Len(items) |-> serialize_item(items[i])]

\* One record of deserialize's loop: the item it creates (none for an unknown
\* type) or the exception it raises.
deserialize_item(item) ==
    IF "type" \notin DOMAIN item \/ "coords" \notin DOMAIN item
    THEN [err |-> "KeyError", made |-> <<>>]
    ELSE LET item_type == item["type"]
             coords == item["coords"]
             config == Get(item, "config", EmptyDict)
         IN IF item_type \notin {"line", "oval", "rectangle"}
            THEN [err |-> "none", made |-> <<>>]
            ELSE IF ~CoordsOK(item_type, coords)
            THEN [err |-> "TclError", made |-> <<>>]
            ELSE IF item_type = "line"
            THEN [err |-> "none",
                  made |-> << create_line(coords, Get(config, "fill", "black"),
                                          Get(config, "width", 2),
                                          Get(config, "capstyle", "round")) >>]
            ELSE IF item_type = "oval"
            THEN [err |-> "none",
                  made |-> << create_oval(coords, Get(config, "fill", "black"),
                                          Get(config, "outline", "black")) >>]
            ELSE [err |-> "none",
                  made |-> << create_rectangle(coords, Get(config, "fill", "black"),
                                               Get(config, "outline", "black")) >>]

\* deserialize giving up, without an error, at the first record of an
\* unknown type.
RECURSIVE deserialize_stops_at_unknown(_, _)
deserialize_stops_at_unknown(data, acc) ==
    IF data = <<>> THEN [items |-> acc, err |-> "none"]
    ELSE LET r == deserialize_item(Head(data))
         IN IF r.err # "none" THEN [items |-> acc, err |-> r.err]
            ELSE IF r.made = <<>> THEN [items |-> acc, err |-> "none"]
            ELSE deserialize_stops_at_unknown(Tail(data), acc \o r.made)

RECURSIVE deserialize_from(_, _)
deserialize_from(data, acc) ==
    IF data = <<>> THEN [items |-> acc, err |-> "none"]
    ELSE LET r == deserialize_item(Head(data))
         IN IF r.err # "none" THEN [items |-> acc, err |-> r.err]
            ELSE deserialize_from(Tail(data), acc \o r.made)

\* delete("all"), then one item per record; an exception leaves the canvas
\* with the items created before it.
deserialize(data) == deserialize_from(data, <<>>)

(***************************************************************************)
(* DrawingCanvas.get_fill_percentage, of a viewport given in pixels.  The   *)
(* result is the fraction num / den of a percentage (den > 0), so that no  *)
(* division is rounded.                                                    *)
(***************************************************************************)
clamp_box(b, canvas_w, canvas_h) ==
    << Max2(0, b[1]), Max2(0, b[2]), Min2(canvas_w, b[3]), Min2(canvas_h, b[4]) >>

RECURSIVE total_area(_)
total_area(boxes) ==
    IF boxes = {} THEN 0
    ELSE LET b == CHOOSE x \in boxes : TRUE
         IN (b[3] - b[1]) * (b[4] - b[2]) + total_area(boxes \ {b})

get_fill_percentage(items, canvas_w, canvas_h) ==
    IF items = <<>> THEN [num |-> 0, den |-> 1]
    ELSE IF canvas_w <= 1 \/ canvas_h <= 1 THEN [num |-> 0, den |-> 1]
    ELSE LET w == 2 * canvas_w
             h == 2 * canvas_h
             canvas_area == w * h
             filled_pixels == {clamp_box(bbox(items[i]), w, h) : i \in DOMAIN items}
             total == total_area(filled_pixels)
         IN [num |-> Min2(100 * canvas_area, total * 100), den |-> canvas_area]

(***************************************************************************)
(* The .pnp file: json.dump writes an object as its members in insertion   *)
(* order, json.load builds a dict from the members (the last one of a      *)
(* repeated key wins).                                                     *)
(***************************************************************************)
dump_dict(d, keys) == [i \in 1..Len(keys) |-> <<keys[i], d[keys[i]]>>]

load_dict(members) ==
    [k \in {members[i][1] : i \in DOMAIN members} |->
        LET last == CHOOSE i \in DOMAIN members :
                        /\ members[i][1] = k
                        /\ \A j \in DOMAIN members : members[j][1] = k => j <= i
        IN members[last][2]]

ConfigKeys(type) ==
    IF type = "line" THEN <<"fill", "width", "capstyle">> ELSE <<"fill", "outline">>

\* An item record written without its "config" member.
dump_item_without_config(rec) ==
    << <<"type", rec.type>>, <<"coords", rec.coords>> >>

dump_item(rec) ==
    << <<"type", rec.type>>, <<"coords", rec.coords>>,
       <<"config", dump_dict(rec.config, ConfigKeys(rec.type))>> >>

json_dump(data) ==
    [kind |-> "json",
     members |-> << <<"items", [i \in 1..Len(data.items) |-> dump_item(data.items[i])]>>,
                    <<"color", data.color>>,
                    <<"brush_size", data.brush_size>> >>]

load_item(members) ==
    LET d == load_dict(members)
    IN IF "config" \in DOMAIN d
       THEN [k \in DOMAIN d |-> IF k = "config" THEN load_dict(d[k]) ELSE d[k]]
       ELSE d

json_load(text) ==
    LET d == load_dict(text.members)
    IN IF "items" \in DOMAIN d
       THEN [k \in DOMAIN d |->
                IF k = "items" THEN [i \in 1..Len(d[k]) |-> load_item(d[k][i])]
                ELSE d[k]]
       ELSE d

\* What a path can hold: nothing readable, bytes that are no JSON, or a
\* JSON object.
Unreadable == [kind |-> "unreadable", members |-> <<>>]
Garbage == [kind |-> "garbage", members |-> <<>>]
JsonText(members) == [kind |-> "json", members |-> members]

(***************************************************************************)
(* The handlers, as functions of the program state s: a record of the      *)
(* fields of PenAndPaperApp and DrawingCanvas and of the files on disk.    *)
(***************************************************************************)
\* _save_undo_snapshot evicting the newest entry for the oldest (pop() for
\* pop(0)).
save_undo_snapshot_pops_top(s) ==
    LET snapshot == serialize(s.canvas)
        pushed == Append(s.undo_stack, snapshot)
    IN [s EXCEPT !.undo_stack = IF Len(pushed) > UndoLimit
                                THEN SubSeq(pushed, 1, Len(pushed) - 1) ELSE pushed,
                 !.redo_stack = <<>>]

\* _save_undo_snapshot without redo_stack.clear().
save_undo_snapshot_keeps_redo(s) ==
    LET snapshot == serialize(s.canvas)
        pushed == Append(s.undo_stack, snapshot)
    IN [s EXCEPT !.undo_stack = IF Len(pushed) > UndoLimit THEN Tail(pushed) ELSE pushed]

\* DrawingCanvas._save_undo_snapshot
save_undo_snapshot(s) ==
    LET snapshot == serialize(s.canvas)
        pushed == Append(s.undo_stack, snapshot)
    IN [s EXCEPT !.undo_stack = IF Len(pushed) > UndoLimit THEN Tail(pushed) ELSE pushed,
                 !.redo_stack = <<>>]

\* DrawingCanvas._on_press, the pointer at pixel p
on_press(s, p) ==
    LET s0 == [s EXCEPT !.last = p, !.action_started = FALSE]
    IN IF s0.current_tool = "pencil"
       THEN LET s1 == save_undo_snapshot(s0)
                r == s1.brush_size
                dot == create_oval(<<2 * p[1] - r, 2 * p[2] - r, 2 * p[1] + r, 2 * p[2] + r>>,
                                   s1.current_color, s1.current_color)
            IN [s1 EXCEPT !.canvas = Append(@, dot), !.modified = TRUE,
                          !.action_started = TRUE]
       ELSE IF s0.current_tool = "eraser"
       THEN [save_undo_snapshot(s0) EXCEPT !.action_started = TRUE]
       ELSE IF s0.current_tool = "fill"
       THEN LET s1 == save_undo_snapshot(s0)
                rect == create_rectangle(<<0, 0, 2 * ViewW, 2 * ViewH>>,
                                         s1.current_color, s1.current_color)
                made == Append(s1.canvas, rect)
            IN [s1 EXCEPT !.canvas = tag_lower(made, Len(made)), !.modified = TRUE,
                          !.action_started = TRUE]
       ELSE s0

\* DrawingCanvas._on_drag, the pointer at pixel p
on_drag(s, p) ==
    LET s1 ==
          IF s.current_tool = "pencil"
          THEN [s EXCEPT !.canvas =
                            Append(@, create_line(<<2 * s.last[1], 2 * s.last[2],
                                                    2 * p[1], 2 * p[2]>>,
                                                  s.current_color, s.brush_size, "round")),
                         !.modified = TRUE]
          ELSE IF s.current_tool = "eraser"
          THEN LET r == 2 * (s.brush_size * 2)
                   overlapping == find_overlapping(s.canvas, 2 * p[1] - r, 2 * p[2] - r,
                                                   2 * p[1] + r, 2 * p[2] + r)
               IN [s EXCEPT !.canvas = SelectPlaces(@, DOMAIN @ \ overlapping, 1),
                            !.modified = IF overlapping # {} THEN TRUE ELSE @]
          ELSE s
    IN [s1 EXCEPT !.last = p]

\* DrawingCanvas._on_release
on_release(s) == [s EXCEPT !.last = NoPoint, !.action_started = FALSE]

\* Toolbar.select_tool, Toolbar._pick_color (color: the chosen one, None when
\* the chooser is cancelled), Toolbar._on_size_change
select_tool(s, tool) == [s EXCEPT !.current_tool = tool]
pick_color(s, color) == IF color # None THEN [s EXCEPT !.current_color = color] ELSE s
on_size_change(s, value) == [s EXCEPT !.brush_size = value]

\* PenAndPaperApp.set_brush_size, custom_brush_size (answer: <<size>> when
\* askinteger returns size, <<>> when it returns None; the dialog accepts no
\* entry outside 1..50)
set_brush_size(s, size) == [s EXCEPT !.brush_size = size]
custom_brush_size(s, answer) ==
    IF answer # <<>> THEN [s EXCEPT !.brush_size = answer[1]] ELSE s

\* undo with pop(0) for pop(): the oldest snapshot is restored.
undo_pops_oldest(s) ==
    IF s.undo_stack = <<>> THEN s
    ELSE LET snapshot == s.undo_stack[1]
         IN [s EXCEPT !.redo_stack = Append(@, serialize(s.canvas)),
                      !.undo_stack = Tail(@),
                      !.canvas = deserialize(snapshot).items,
                      !.modified = TRUE]

\* PenAndPaperApp.undo
undo(s) ==
    IF s.undo_stack = <<>> THEN s
    ELSE LET snapshot == s.undo_stack[Len(s.undo_stack)]
         IN [s EXCEPT !.redo_stack = Append(@, serialize(s.canvas)),
                      !.undo_stack = SubSeq(@, 1, Len(@) - 1),
                      !.canvas = deserialize(snapshot).items,
                      !.modified = TRUE]

\* redo without its push onto undo_stack.
redo_forgets_push(s) ==
    IF s.redo_stack = <<>> THEN s
    ELSE LET snapshot == s.redo_stack[Len(s.redo_stack)]
         IN [s EXCEPT !.redo_stack = SubSeq(@, 1, Len(@) - 1),
                      !.canvas = deserialize(snapshot).items,
                      !.modified = TRUE]

\* redo without redo_stack.pop(): the snapshot stays on redo_stack.
redo_keeps_entry(s) ==
    IF s.redo_stack = <<>> THEN s
    ELSE LET snapshot == s.redo_stack[Len(s.redo_stack)]
         IN [s EXCEPT !.undo_stack = Append(@, serialize(s.canvas)),
                      !.canvas = deserialize(snapshot).items,
                      !.modified = TRUE]

\* redo with pop(0) for pop(): the oldest undone state comes back.
redo_pops_oldest(s) ==
    IF s.redo_stack = <<>> THEN s
    ELSE LET snapshot == s.redo_stack[1]
         IN [s EXCEPT !.undo_stack = Append(@, serialize(s.canvas)),
                      !.redo_stack = Tail(@),
                      !.canvas = deserialize(snapshot).items,
                      !.modified = TRUE]

\* PenAndPaperApp.redo
redo(s) ==
    IF s.redo_stack = <<>> THEN s
    ELSE LET snapshot == s.redo_stack[Len(s.redo_stack)]
         IN [s EXCEPT !.undo_stack = Append(@, serialize(s.canvas)),
                      !.redo_stack = SubSeq(@, 1, Len(@) - 1),
                      !.canvas = deserialize(snapshot).items,
                      !.modified = TRUE]

\* clear_canvas taking its snapshot before it asks.
clear_canvas_snapshots_first(s, confirm) ==
    IF s.canvas # <<>> /\ ~confirm THEN save_undo_snapshot(s)
    ELSE [save_undo_snapshot(s) EXCEPT !.canvas = <<>>, !.modified = TRUE]

\* PenAndPaperApp.clear_canvas (confirm: the answer of askyesno, asked only
\* of a canvas that holds items)
clear_canvas(s, confirm) ==
    IF s.canvas # <<>> /\ ~confirm THEN s
    ELSE [save_undo_snapshot(s) EXCEPT !.canvas = <<>>, !.modified = TRUE]

(***************************************************************************)
(* The files.  out.pnp is the path the save dialog offers; the other files *)
(* exist before the program starts and are read-only, so that writing one  *)
(* of them raises OSError.  Coordinates are in half-pixels.                *)
(***************************************************************************)
OutFile == "out.pnp"

\* {"items": [one rectangle], "color": "#ff0000", "brush_size": 7}
RectDoc ==
    JsonText(<< <<"items", << << <<"type", "rectangle">>, <<"coords", <<0, 0, 20, 20>>>>,
                                 <<"config", << <<"fill", Red>>, <<"outline", Red>> >> >> >> >> >>,
                <<"color", Red>>, <<"brush_size", 7>> >>)
\* an oval without config, then a record without "type"
NoTypeDoc ==
    JsonText(<< <<"items", << << <<"type", "oval">>, <<"coords", <<2, 2, 6, 6>>>> >>,
                              << <<"coords", <<0, 0, 4, 4>>>> >> >> >>,
                <<"color", Red>>, <<"brush_size", 5>> >>)
\* a record of an unknown type, a line without config, brush_size 100, no color
BigDoc ==
    JsonText(<< <<"items", << << <<"type", "text">>, <<"coords", <<2, 2>>>> >>,
                              << <<"type", "line">>, <<"coords", <<2, 2, 16, 16>>>> >> >> >>,
                <<"brush_size", 100>> >>)
\* {}
EmptyDoc == JsonText(<<>>)
\* an oval with two coordinates: Tk raises TclError
BadCoordsDoc ==
    JsonText(<< <<"items", << << <<"type", "oval">>, <<"coords", <<2, 2>>>> >> >> >> >>)

\* an oval, then a rectangle above it
LayersDoc ==
    JsonText(<< <<"items", << << <<"type", "oval">>, <<"coords", <<2, 2, 6, 6>>>>,
                                 <<"config", << <<"fill", Black>>, <<"outline", Black>> >> >> >>,
                              << <<"type", "rectangle">>, <<"coords", <<0, 0, 20, 20>>>>,
                                 <<"config", << <<"fill", Red>>, <<"outline", Red>> >> >> >> >> >>,
                <<"color", Black>>,
                <<"brush_size", 2>> >>)

ReadOnlyFiles ==
    {"rect.pnp", "notype.pnp", "big.pnp", "empty.pnp", "badcoords.pnp",
     "layers.pnp", "garbage.pnp", "locked.pnp"}
Paths == ReadOnlyFiles \cup {OutFile}

InitDisk ==
    [f \in Paths |->
        CASE f = "rect.pnp" -> RectDoc
          [] f = "notype.pnp" -> NoTypeDoc
          [] f = "big.pnp" -> BigDoc
          [] f = "empty.pnp" -> EmptyDoc
          [] f = "badcoords.pnp" -> BadCoordsDoc
          [] f = "layers.pnp" -> LayersDoc
          [] f = "garbage.pnp" -> Garbage
          [] OTHER -> Unreadable]

\* _save_to_file recording the path before it opens the file.
save_to_file_sets_path_first(s, filepath, w) ==
    LET data == [items |-> serialize(s.canvas), color |-> s.current_color,
                 brush_size |-> s.brush_size]
        s1 == [s EXCEPT !.current_file = filepath]
    IN IF w = "oserror" \/ filepath \in ReadOnlyFiles THEN s1
       ELSE IF w = "partial" THEN [s1 EXCEPT !.disk[filepath] = Garbage]
       ELSE [s1 EXCEPT !.disk[filepath] = json_dump(data), !.modified = FALSE]

\* PenAndPaperApp._save_to_file.  w is what the file system does: "ok",
\* "oserror" (open fails) or "partial" (open truncates the file, the write
\* then fails).
save_to_file(s, filepath, w) ==
    LET data == [items |-> serialize(s.canvas), color |-> s.current_color,
                 brush_size |-> s.brush_size]
    IN IF w = "oserror" \/ filepath \in ReadOnlyFiles THEN s
       ELSE IF w = "partial" THEN [s EXCEPT !.disk[filepath] = Garbage]
       ELSE [s EXCEPT !.disk[filepath] = json_dump(data),
                      !.current_file = filepath,
                      !.modified = FALSE]

\* PenAndPaperApp.file_save_as (filepath: what asksaveasfilename returns, ""
\* when cancelled) and file_save
file_save_as(s, filepath, w) == IF filepath = "" THEN s ELSE save_to_file(s, filepath, w)

file_save(s, filepath, w) ==
    IF s.current_file # None THEN save_to_file(s, s.current_file, w)
    ELSE file_save_as(s, filepath, w)

\* _check_unsaved going on after Yes whatever became of the save.
check_unsaved_trusts_save(s, answer, filepath, w) ==
    IF ~s.modified THEN [ok |-> TRUE, st |-> s]
    ELSE IF answer = "cancel" THEN [ok |-> FALSE, st |-> s]
    ELSE IF answer = "yes"
    THEN [ok |-> TRUE, st |-> file_save(s, filepath, w)]
    ELSE [ok |-> TRUE, st |-> s]

\* PenAndPaperApp._check_unsaved (answer: "yes", "no" or "cancel" of
\* askyesnocancel): whether to proceed, and the state it leaves.
check_unsaved(s, answer, filepath, w) ==
    IF ~s.modified THEN [ok |-> TRUE, st |-> s]
    ELSE IF answer = "cancel" THEN [ok |-> FALSE, st |-> s]
    ELSE IF answer = "yes"
    THEN LET s1 == file_save(s, filepath, w) IN [ok |-> ~s1.modified, st |-> s1]
    ELSE [ok |-> TRUE, st |-> s]

\* file_new without redo_stack.clear().
file_new_keeps_redo(s, answer, filepath, w) ==
    LET c == check_unsaved(s, answer, filepath, w)
    IN IF ~c.ok THEN [st |-> c.st, res |-> "cancelled"]
       ELSE [st |-> [c.st EXCEPT !.canvas = <<>>, !.current_file = None,
                                 !.modified = FALSE, !.current_color = Black,
                                 !.undo_stack = <<>>, !.current_tool = "pencil"],
             res |-> "ok"]

\* PenAndPaperApp.file_new
file_new(s, answer, filepath, w) ==
    LET c == check_unsaved(s, answer, filepath, w)
    IN IF ~c.ok THEN [st |-> c.st, res |-> "cancelled"]
       ELSE [st |-> [c.st EXCEPT !.canvas = <<>>, !.current_file = None,
                                 !.modified = FALSE, !.current_color = Black,
                                 !.undo_stack = <<>>, !.redo_stack = <<>>,
                                 !.current_tool = "pencil"],
             res |-> "ok"]

\* file_open keeping the colour in use when the document names none.
file_open_keeps_color(s, answer, filepath, w, openpath) ==
    LET c == check_unsaved(s, answer, filepath, w)
        text == c.st.disk[openpath]
        data == json_load(text)
        d == deserialize(Get(data, "items", <<>>))
    IN IF ~c.ok \/ openpath = "" THEN [st |-> c.st, res |-> "cancelled"]
       ELSE IF text.kind = "unreadable" THEN [st |-> c.st, res |-> "OSError"]
       ELSE IF text.kind = "garbage" THEN [st |-> c.st, res |-> "JSONDecodeError"]
       ELSE IF d.err # "none" THEN [st |-> [c.st EXCEPT !.canvas = d.items], res |-> d.err]
       ELSE [st |-> [c.st EXCEPT !.canvas = d.items,
                                 !.current_color = Get(data, "color", c.st.current_color),
                                 !.brush_size = Get(data, "brush_size", 2),
                                 !.current_file = openpath,
                                 !.modified = FALSE,
                                 !.undo_stack = <<>>, !.redo_stack = <<>>],
             res |-> "ok"]

\* PenAndPaperApp.file_open (openpath: what askopenfilename returns).  res is
\* "ok", "cancelled", or the exception raised; TclError is the one the
\* handler does not catch.
file_open(s, answer, filepath, w, openpath) ==
    LET c == check_unsaved(s, answer, filepath, w)
        text == c.st.disk[openpath]
        data == json_load(text)
        d == deserialize(Get(data, "items", <<>>))
    IN IF ~c.ok \/ openpath = "" THEN [st |-> c.st, res |-> "cancelled"]
       ELSE IF text.kind = "unreadable" THEN [st |-> c.st, res |-> "OSError"]
       ELSE IF text.kind = "garbage" THEN [st |-> c.st, res |-> "JSONDecodeError"]
       ELSE IF d.err # "none" THEN [st |-> [c.st EXCEPT !.canvas = d.items], res |-> d.err]
       ELSE [st |-> [c.st EXCEPT !.canvas = d.items,
                                 !.current_color = Get(data, "color", Black),
                                 !.brush_size = Get(data, "brush_size", 2),
                                 !.current_file = openpath,
                                 !.modified = FALSE,
                                 !.undo_stack = <<>>, !.redo_stack = <<>>],
             res |-> "ok"]

\* PenAndPaperApp.file_exit
file_exit(s, answer, filepath, w) ==
    LET c == check_unsaved(s, answer, filepath, w)
    IN IF ~c.ok THEN [st |-> c.st, res |-> "cancelled"]
       ELSE [st |-> [c.st EXCEPT !.destroyed = TRUE], res |-> "ok"]

(***************************************************************************)
(* The state: the fields of PenAndPaperApp (current_tool .. redo_stack,    *)
(* destroyed for the window), of DrawingCanvas (canvas: its display list,  *)
(* last: _last_x/_last_y, action_started) and the files on disk.           *)
(*                                                                         *)
(* Observers, written by no handler: ev names the last event and how it    *)
(* ended; ur follows an undo and the redo right after it; gest follows an  *)
(* uninterrupted gesture (the display list, the undo stack and whether     *)
(* there was anything to redo when it began) and the undo and redo right   *)
(* after it; saved is                                                      *)
(* what the last successful save wrote from; baseline is the display list  *)
(* at the last successful New, Open or Save.  watch, fixed by the initial  *)
(* state, names the events ev records (any other event leaves Quiet) and   *)
(* the observers that run ("ur", "gest", "saved", "baseline").             *)
(***************************************************************************)
VARIABLES canvas, current_tool, current_color, brush_size, current_file, modified,
          undo_stack, redo_stack, last, action_started, destroyed, disk,
          ev, ur, gest, saved, baseline, watch

prog == <<canvas, current_tool, current_color, brush_size, current_file, modified,
          undo_stack, redo_stack, last, action_started, destroyed, disk>>
vars == <<prog, ev, ur, gest, saved, baseline, watch>>

St ==
    [canvas |-> canvas, current_tool |-> current_tool, current_color |-> current_color,
     brush_size |-> brush_size, current_file |-> current_file, modified |-> modified,
     undo_stack |-> undo_stack, redo_stack |-> redo_stack, last |-> last,
     action_started |-> action_started, destroyed |-> destroyed, disk |-> disk]

Idle == [phase |-> "idle"]
Quiet == [op |-> "-", res |-> "-", pre |-> "-"]
NoSave == [path |-> None]

\* How a save to target ends, for ev: cancelled in the dialog, written, or
\* refused by the file system.
save_outcome(s, target, w) ==
    IF target = "" THEN "cancelled"
    ELSE IF w = "ok" /\ target \notin ReadOnlyFiles THEN "ok"
    ELSE "failed"

\* What the user and the file system do to the unsaved-changes question, for
\* ev: no question ("clean"), Cancel, No ("discard"), Yes with the save
\* written ("saved"), Yes with the save cancelled or refused ("save_failed").
unsaved_outcome(s, answer, filepath, w) ==
    IF ~s.modified THEN "clean"
    ELSE IF answer = "cancel" THEN "cancel"
    ELSE IF answer = "no" THEN "discard"
    ELSE IF save_outcome(s, IF s.current_file # None THEN s.current_file ELSE filepath, w) = "ok"
    THEN "saved"
    ELSE "save_failed"

\* PenAndPaperApp.__init__
start_state ==
    [canvas |-> <<>>, current_tool |-> "pencil", current_color |-> Black,
     brush_size |-> 2, current_file |-> None, modified |-> FALSE,
     undo_stack |-> <<>>, redo_stack |-> <<>>, last |-> NoPoint,
     action_started |-> FALSE, destroyed |-> FALSE, disk |-> InitDisk]

\* The program in state s, no event observed yet.
Load(s) ==
    /\ canvas = s.canvas
    /\ current_tool = s.current_tool
    /\ current_color = s.current_color
    /\ brush_size = s.brush_size
    /\ current_file = s.current_file
    /\ modified = s.modified
    /\ undo_stack = s.undo_stack
    /\ redo_stack = s.redo_stack
    /\ last = s.last
    /\ action_started = s.action_started
    /\ destroyed = s.destroyed
    /\ disk = s.disk
    /\ ev = Quiet
    /\ ur = Idle
    /\ gest = Idle
    /\ saved = NoSave
    /\ baseline = <<>>

Start == Load(start_state)

\* One event: the handler takes the state to s2; the observers follow.
Step(op, res, pre, s2) ==
    /\ ~destroyed
    /\ canvas' = s2.canvas
    /\ current_tool' = s2.current_tool
    /\ current_color' = s2.current_color
    /\ brush_size' = s2.brush_size
    /\ current_file' = s2.current_file
    /\ modified' = s2.modified
    /\ undo_stack' = s2.undo_stack
    /\ redo_stack' = s2.redo_stack
    /\ last' = s2.last
    /\ action_started' = s2.action_started
    /\ destroyed' = s2.destroyed
    /\ disk' = s2.disk
    /\ watch' = watch
    /\ ev' = IF op \in watch THEN [op |-> op, res |-> res, pre |-> pre] ELSE Quiet
    /\ ur' = IF "ur" \notin watch THEN ur
             ELSE IF op = "undo" /\ res = "ok"
             THEN [phase |-> "undone", canvas |-> canvas, undo_stack |-> undo_stack,
                   redo_stack |-> redo_stack]
             ELSE IF op = "redo" /\ res = "ok" /\ ur.phase = "undone"
             THEN [ur EXCEPT !.phase = "redone"]
             ELSE Idle
    /\ gest' = IF "gest" \notin watch THEN gest
               ELSE IF op = "press"
               THEN [phase |-> "active", S |-> canvas, U0 |-> undo_stack,
                     had_redo |-> redo_stack # <<>>, post |-> <<>>]
               ELSE IF op = "drag" /\ gest.phase = "active" THEN gest
               ELSE IF op = "release" /\ gest.phase = "active"
               THEN [gest EXCEPT !.phase = "done", !.post = s2.canvas]
               ELSE IF op = "clear" /\ res = "cleared"
               THEN [phase |-> "done", S |-> canvas, U0 |-> undo_stack,
                     had_redo |-> redo_stack # <<>>, post |-> s2.canvas]
               ELSE IF op = "undo" /\ res = "ok" /\ gest.phase = "done"
               THEN [gest EXCEPT !.phase = "undone"]
               ELSE IF op = "redo" /\ res = "ok" /\ gest.phase = "undone"
               THEN [gest EXCEPT !.phase = "redone"]
               ELSE Idle
    /\ saved' = IF "saved" \notin watch THEN saved
                ELSE IF (op \in {"save", "save_as"} /\ res = "ok") \/ pre = "saved"
                THEN [path |-> OutFile, canvas |-> canvas, color |-> current_color,
                      brush_size |-> brush_size]
                ELSE IF s2.disk[OutFile] # disk[OutFile] THEN NoSave
                ELSE saved
    /\ baseline' = IF "baseline" \notin watch THEN baseline
                   ELSE IF op \in {"new", "open"} /\ res = "ok" THEN s2.canvas
                   ELSE IF (op \in {"save", "save_as"} /\ res = "ok") \/ pre = "saved"
                   THEN canvas
                   ELSE baseline

(***************************************************************************)
(* The events.  A pointer press starts with the button up, a drag and a    *)
(* release need it down (last holds the pointer while it is down); the     *)
(* keyboard reaches every other handler at any time.                       *)
(***************************************************************************)
\* Whether undo_stack is at its capacity before the event, for ev.
stack_room == IF Len(undo_stack) >= UndoLimit THEN "full" ELSE "-"

OnPress(p) ==
    /\ last = NoPoint
    /\ current_tool \in {"pencil", "fill"} => Len(canvas) < MaxItems
    /\ Step("press", current_tool, stack_room, on_press(St, p))

OnDrag(p) ==
    /\ last # NoPoint
    /\ current_tool = "pencil" => Len(canvas) < MaxItems
    /\ Step("drag", current_tool, "-", on_drag(St, p))

OnRelease ==
    /\ last # NoPoint
    /\ Step("release", current_tool, "-", on_release(St))

SelectTool(tool) == Step("tool", "ok", "-", select_tool(St, tool))

PickColor(color) == Step("color", "ok", "-", pick_color(St, color))

OnSizeChange(value) == Step("size", "slider", "-", on_size_change(St, value))

SetBrushSize(size) == Step("size", "preset", "-", set_brush_size(St, size))

CustomBrushSize(answer) ==
    /\ answer # <<>> => answer[1] \in 1..50
    /\ Step("size", "custom", "-", custom_brush_size(St, answer))

Undo == Step("undo", IF undo_stack = <<>> THEN "noop" ELSE "ok", "-", undo(St))

Redo == Step("redo", IF redo_stack = <<>> THEN "noop" ELSE "ok", "-", redo(St))

ClearCanvas(confirm) ==
    Step("clear", IF canvas # <<>> /\ ~confirm THEN "declined" ELSE "cleared", stack_room,
         clear_canvas(St, confirm))

FileNew(answer, filepath, w) ==
    LET r == file_new(St, answer, filepath, w)
    IN Step("new", r.res, unsaved_outcome(St, answer, filepath, w), r.st)

FileOpen(answer, filepath, w, openpath) ==
    LET r == file_open(St, answer, filepath, w, openpath)
    IN Step("open", r.res, unsaved_outcome(St, answer, filepath, w), r.st)

FileSave(filepath, w) ==
    Step("save", save_outcome(St, IF current_file # None THEN current_file ELSE filepath, w),
         "-", file_save(St, filepath, w))

FileSaveAs(filepath, w) ==
    Step("save_as", save_outcome(St, filepath, w), "-", file_save_as(St, filepath, w))

FileExit(answer, filepath, w) ==
    LET r == file_exit(St, answer, filepath, w)
    IN Step("exit", r.res, unsaved_outcome(St, answer, filepath, w), r.st)

(***************************************************************************)
(* The inputs of the events.                                               *)
(***************************************************************************)
Points == {<<1, 1>>}
Tools == {"pencil", "eraser", "fill"}
Answers == {"yes", "no", "cancel"}
SavePaths == {"", OutFile}
WriteOutcomes == {"ok", "oserror", "partial"}

\* Editing and history: the pointer inside the viewport with every tool,
\* undo, redo, Clear Canvas, New, and Open of a file that loads and of one
\* that fails half way.  Nothing is written to disk.
Init == Start /\ watch = {"ur", "gest", "press", "drag", "clear"}

Next ==
    \/ \E p \in Points : OnPress(p)
    \/ \E p \in Points : OnDrag(p)
    \/ OnRelease
    \/ \E tool \in Tools : SelectTool(tool)
    \/ Undo
    \/ Redo
    \/ \E confirm \in BOOLEAN : ClearCanvas(confirm)
    \/ \E answer \in {"no"}, filepath \in {""}, w \in {"ok"} :
          FileNew(answer, filepath, w)
    \/ \E answer \in {"no"}, filepath \in {""}, w \in {"ok"},
          openpath \in {"empty.pnp", "notype.pnp"} :
          FileOpen(answer, filepath, w, openpath)

Spec == Init /\ [][Next]_vars

(***************************************************************************)
(* Claims checked under Spec.                                              *)
(***************************************************************************)
\* C1: undo() and then at once redo(), from a state with a non-empty
\* undo_stack, give back the display list (same items, same order), the
\* undo_stack and the redo_stack that were there before the undo.
C1_UndoThenRedoRestores ==
    ur.phase = "redone" =>
        /\ canvas = ur.canvas
        /\ undo_stack = ur.undo_stack
        /\ redo_stack = ur.redo_stack

C1_Witness ==
    /\ ur.phase = "redone"
    /\ Len(canvas) = 2
    /\ canvas[1].type # canvas[2].type
    /\ undo_stack # <<>>
    /\ redo_stack # <<>>

\* C3: an uninterrupted gesture (a press, its drags and the release, or a
\* confirmed Clear Canvas) started on display list S with undo stack U0 leaves
\* U0 with exactly one more snapshot, that of S (the oldest entry dropped from
\* a full stack); the undo right after it gives back S, and the redo right
\* after that undo gives back the display list the gesture ended with.
C3_GestureIsOneUndoStep ==
    /\ gest.phase = "done" =>
          undo_stack = IF Len(gest.U0) < UndoLimit
                       THEN Append(gest.U0, serialize(gest.S))
                       ELSE Append(Tail(gest.U0), serialize(gest.S))
    /\ gest.phase = "undone" => canvas = gest.S
    /\ gest.phase = "redone" => canvas = gest.post

C3_Witness ==
    /\ gest.phase = "redone"
    /\ gest.S # <<>>
    /\ Len(gest.post) > Len(gest.S)
    /\ \E i \in DOMAIN gest.post : gest.post[i].type = "line"

\* C7 (as claimed): whenever a press, a drag or Clear Canvas changes the
\* display list, redo_stack is empty afterwards.
C7_EditLeavesRedoEmpty ==
    [][(ev'.op \in {"press", "drag", "clear"} /\ canvas' # canvas) => redo_stack' = <<>>]_vars

\* C11: Clear Canvas on a display list that holds items, answered No, leaves
\* the display list, undo_stack, redo_stack and modified as they were.
C11_DeclinedClearChangesNothing ==
    [][(ev'.op = "clear" /\ ev'.res = "declined") =>
          /\ canvas # <<>>
          /\ canvas' = canvas
          /\ undo_stack' = undo_stack
          /\ redo_stack' = redo_stack
          /\ modified' = modified]_vars

C11_Witness ==
    /\ ev.op = "clear"
    /\ ev.res = "declined"
    /\ Len(canvas) = 2
    /\ undo_stack # <<>>
    /\ redo_stack # <<>>

\* C13: every event that calls _save_undo_snapshot (a press with the pencil,
\* the eraser or the fill tool, and a Clear Canvas that goes through) leaves
\* redo_stack empty.
C13_SnapshotEmptiesRedo ==
    [][(ev'.op = "press" \/ (ev'.op = "clear" /\ ev'.res = "cleared")) =>
          redo_stack' = <<>>]_vars

C13_Witness ==
    /\ ev.op = "press"
    /\ ev.res = "eraser"
    /\ gest.phase = "active"
    /\ gest.had_redo
    /\ canvas = gest.S
    /\ canvas # <<>>
    /\ redo_stack = <<>>

\* C19: in every reachable state undo_stack and redo_stack together hold at
\* most as many snapshots as undo_stack alone may hold.
C19_StacksTogetherBounded == Len(undo_stack) + Len(redo_stack) <= UndoLimit

C19_Witness ==
    /\ ur.phase = "redone"
    /\ Len(ur.undo_stack) = UndoLimit
    /\ Len(undo_stack) = UndoLimit
    /\ undo_stack[1] # undo_stack[UndoLimit]

(***************************************************************************)
(* Editing, history and the session's own file: the events of Spec with    *)
(* Save, and Open of the file Save wrote.                                  *)
(***************************************************************************)
InitCap == Start /\ watch = {"press", "clear"}

NextCap ==
    \/ \E p \in Points : OnPress(p)
    \/ \E p \in Points : OnDrag(p)
    \/ OnRelease
    \/ \E tool \in Tools : SelectTool(tool)
    \/ Undo
    \/ Redo
    \/ \E confirm \in BOOLEAN : ClearCanvas(confirm)
    \/ \E answer \in {"no"}, filepath \in {""}, w \in {"ok"} :
          FileNew(answer, filepath, w)
    \/ \E answer \in {"no"}, filepath \in {""}, w \in {"ok"}, openpath \in {OutFile} :
          FileOpen(answer, filepath, w, openpath)
    \/ \E filepath \in {OutFile}, w \in {"ok"} : FileSave(filepath, w)

SpecCap == InitCap /\ [][NextCap]_vars

\* C2: undo_stack never holds more than its capacity (50 in the program,
\* UndoLimit here), whatever the presses, drags, releases, Clear Canvas, undo,
\* redo, New, Open and Save that came before; and a snapshot pushed onto a full
\* stack evicts the entry at index 0 and becomes the top.
C2_UndoStackBounded ==
    /\ [](Len(undo_stack) <= UndoLimit)
    /\ [][(/\ ev'.op \in {"press", "clear"}
           /\ ev'.res # "declined"
           /\ Len(undo_stack) = UndoLimit)
          => undo_stack' = Append(Tail(undo_stack), serialize(canvas))]_vars

C2_Witness ==
    /\ ev.op = "press"
    /\ ev.pre = "full"
    /\ Len(undo_stack) = UndoLimit
    /\ undo_stack[1] # undo_stack[UndoLimit]
    /\ current_file = OutFile

(***************************************************************************)
(* Files: the session starts after one of a few editing sessions (each the *)
(* handlers applied in turn to the initial state, the button up at the     *)
(* end), and goes on with undo, redo, New, Open, Save, Save As and Exit,   *)
(* every dialog answered in every way and every write ending in every way. *)
(***************************************************************************)
\* a pencil stroke: the dot of the press and one segment
stroke(s) == on_release(on_drag(on_press(s, <<1, 1>>), <<8, 8>>))
\* a red fill, then a dot with brush size 5
fill_and_dot(s) ==
    LET a == on_release(on_press(select_tool(pick_color(s, Red), "fill"), <<1, 1>>))
    IN on_release(on_press(set_brush_size(select_tool(a, "pencil"), 5), <<8, 8>>))

Sessions ==
    { start_state,
      stroke(start_state),
      undo(stroke(start_state)),
      fill_and_dot(start_state),
      undo(fill_and_dot(start_state)) }

InitFile ==
    /\ \E s \in Sessions : Load(s)
    /\ watch = {"saved", "baseline", "new", "open", "exit", "save", "save_as",
                "undo", "redo"}

NextFile ==
    \/ Undo
    \/ Redo
    \/ \E answer \in Answers, filepath \in SavePaths, w \in WriteOutcomes :
          FileNew(answer, filepath, w)
    \/ \E answer \in Answers, filepath \in SavePaths, w \in WriteOutcomes,
          openpath \in Paths \cup {""} :
          FileOpen(answer, filepath, w, openpath)
    \/ \E filepath \in SavePaths, w \in WriteOutcomes : FileSave(filepath, w)
    \/ \E filepath \in SavePaths, w \in WriteOutcomes : FileSaveAs(filepath, w)
    \/ \E answer \in Answers, filepath \in SavePaths, w \in WriteOutcomes :
          FileExit(answer, filepath, w)

SpecFile == InitFile /\ [][NextFile]_vars

(***************************************************************************)
(* Claims checked under SpecFile.                                          *)
(***************************************************************************)
\* C4 (as claimed): an Open that fails because the file cannot be read, is
\* no JSON, or holds an item record without "type" or "coords" leaves the
\* display list, the colour, the brush size and both history stacks as they
\* were, and the current file and the dirty flag as they were when the file
\* was read (a save made on the way by the unsaved-changes question may have
\* set them).
C4_FailedOpenChangesNothing ==
    [][(ev'.op = "open" /\ ev'.res \in {"OSError", "JSONDecodeError", "KeyError"}) =>
          /\ canvas' = canvas
          /\ current_color' = current_color
          /\ brush_size' = brush_size
          /\ undo_stack' = undo_stack
          /\ redo_stack' = redo_stack
          /\ ev'.pre # "saved" => current_file' = current_file /\ modified' = modified]_vars

\* C5: New, Open and Exit on a dirty document answered with Cancel, or with
\* Yes when the save is then cancelled or fails, are abandoned: the display
\* list, both history stacks, the current file, the colour and the dirty
\* flag stay as they were and the window stays open.  (Hence the drawing is
\* given up only after No, or after Yes and a save that was written.)
C5_AbortKeepsDocument ==
    [][(ev'.op \in {"new", "open", "exit"} /\ ev'.pre \in {"cancel", "save_failed"}) =>
          /\ ev'.res = "cancelled"
          /\ canvas' = canvas
          /\ undo_stack' = undo_stack
          /\ redo_stack' = redo_stack
          /\ current_file' = current_file
          /\ current_color' = current_color
          /\ modified' = modified
          /\ modified'
          /\ ~destroyed']_vars

C5_Witness ==
    /\ ev.op = "exit"
    /\ ev.pre = "save_failed"
    /\ canvas # <<>>
    /\ undo_stack # <<>>
    /\ redo_stack # <<>>
    /\ current_color = Red
    /\ ~destroyed

\* C6 (as claimed): whenever the display list differs from the one of the
\* last successful New, Open or Save (the empty one of the program's start
\* before any of them), modified is true.
C6_ChangedCanvasIsDirty == canvas # baseline => modified

\* C9: once a save has written the document to a path and the path still
\* holds what was written, a successful Open of that path gives the display
\* list that was saved (same items, same order, same type, coords and
\* options), the colour and the brush size that were saved, both history
\* stacks empty, modified false and the path as the current file.
C9_SaveOpenRoundTrip ==
    (ev.op = "open" /\ ev.res = "ok" /\ saved.path # None /\ current_file = saved.path) =>
        /\ canvas = saved.canvas
        /\ current_color = saved.color
        /\ brush_size = saved.brush_size
        /\ undo_stack = <<>>
        /\ redo_stack = <<>>
        /\ ~modified

C9_Witness ==
    /\ ev.op = "open"
    /\ ev.res = "ok"
    /\ saved.path = OutFile
    /\ current_file = OutFile
    /\ Len(canvas) = 2
    /\ canvas[1].type = "rectangle"
    /\ canvas[2].type = "oval"
    /\ current_color = Red
    /\ brush_size = 5

\* C12: a Save or Save As that the file system refuses, and a save asked for
\* by the unsaved-changes question of New, Open or Exit that is refused or
\* cancelled, leave the display list, both history stacks, the colour, the
\* brush size, the current file and modified as they were.
C12_FailedSaveChangesNothing ==
    [][((ev'.op \in {"save", "save_as"} /\ ev'.res = "failed")
        \/ (ev'.op \in {"new", "open", "exit"} /\ ev'.pre = "save_failed")) =>
          /\ canvas' = canvas
          /\ undo_stack' = undo_stack
          /\ redo_stack' = redo_stack
          /\ current_color' = current_color
          /\ brush_size' = brush_size
          /\ current_file' = current_file
          /\ modified' = modified]_vars

C12_Witness ==
    /\ ev.op = "save_as"
    /\ ev.res = "failed"
    /\ modified
    /\ current_file = None
    /\ disk[OutFile] = Garbage
    /\ Len(canvas) = 2
    /\ undo_stack # <<>>

\* C14: right after a New that went through and after a successful Open
\* both history stacks are empty, and undo() and redo() called then change
\* nothing; a successful Save or Save As leaves both stacks as they were.
C14_HistoryEndsWithDocument ==
    /\ []((ev.op \in {"new", "open"} /\ ev.res = "ok") =>
            /\ undo_stack = <<>>
            /\ redo_stack = <<>>
            /\ undo(St) = St
            /\ redo(St) = St)
    /\ [][(ev'.op \in {"save", "save_as"} /\ ev'.res = "ok") =>
             undo_stack' = undo_stack /\ redo_stack' = redo_stack]_vars

C14_Witness ==
    /\ ev.op = "new"
    /\ ev.res = "ok"
    /\ ev.pre = "saved"
    /\ Len(saved.canvas) = 1
    /\ json_load(disk[OutFile]).items # <<>>
    /\ canvas = <<>>
    /\ undo_stack = <<>>
    /\ redo_stack = <<>>

\* C15 (as claimed): in every reachable state every rectangle of the
\* display list comes before every line and every oval.
C15_FillsAtTheBottom ==
    \A i, j \in DOMAIN canvas :
        (i < j /\ canvas[j].type = "rectangle") => canvas[i].type = "rectangle"

\* C17: right after a successful Open the colour is the document's "color"
\* or "#000000" when it has none, the brush size is its "brush_size" or 2
\* when it has none, and the display list is what its "items" give or empty
\* when it has none.
C17_OpenDefaults ==
    (ev.op = "open" /\ ev.res = "ok") =>
        LET doc == load_dict(disk[current_file].members)
        IN /\ current_color = IF "color" \in DOMAIN doc THEN doc["color"] ELSE "#000000"
           /\ brush_size = IF "brush_size" \in DOMAIN doc THEN doc["brush_size"] ELSE 2
           /\ "items" \notin DOMAIN doc => canvas = <<>>
           /\ "items" \in DOMAIN doc =>
                 canvas = deserialize(json_load(disk[current_file]).items).items

C17_Witness ==
    /\ ev.op = "open"
    /\ ev.res = "ok"
    /\ ev.pre = "saved"
    /\ current_file = "empty.pnp"
    /\ saved.color = Red
    /\ saved.brush_size = 5
    /\ saved.canvas # <<>>
    /\ current_color = Black
    /\ brush_size = 2
    /\ canvas = <<>>

\* C18: undo() on an empty undo_stack and redo() on an empty redo_stack
\* leave the display list, both stacks and modified as they were.  Otherwise
\* undo() takes the top snapshot off undo_stack, puts the serialized display
\* list on redo_stack, makes the display list the one of the snapshot taken
\* off and sets modified; redo() does the same with the stacks exchanged.
C18_UndoRedoSteps ==
    [][/\ (ev'.op = "undo" /\ undo_stack = <<>>) \/ (ev'.op = "redo" /\ redo_stack = <<>>) =>
             /\ canvas' = canvas
             /\ undo_stack' = undo_stack
             /\ redo_stack' = redo_stack
             /\ modified' = modified
       /\ (ev'.op = "undo" /\ undo_stack # <<>>) =>
             /\ undo_stack' = SubSeq(undo_stack, 1, Len(undo_stack) - 1)
             /\ redo_stack' = Append(redo_stack, serialize(canvas))
             /\ serialize(canvas') = undo_stack[Len(undo_stack)]
             /\ modified'
       /\ (ev'.op = "redo" /\ redo_stack # <<>>) =>
             /\ redo_stack' = SubSeq(redo_stack, 1, Len(redo_stack) - 1)
             /\ undo_stack' = Append(undo_stack, serialize(canvas))
             /\ serialize(canvas') = redo_stack[Len(redo_stack)]
             /\ modified']_vars

C18_Witness ==
    /\ ev.op = "undo"
    /\ ev.res = "ok"
    /\ saved.path = OutFile
    /\ current_file = OutFile
    /\ redo_stack # <<>>
    /\ serialize(saved.canvas) = redo_stack[Len(redo_stack)]
    /\ undo_stack # <<>>
    /\ canvas # <<>>
    /\ modified

\* A record whose "type" is one deserialize creates an item for.
known_type(record) == record["type"] \in {"line", "oval", "rectangle"}

\* C20: right after a successful Open the display list holds one item for
\* each record of "items" whose type is line, oval or rectangle, in the
\* order of the records, of the record's type and coords, and nothing else:
\* neither an item of the display list before nor anything for a record of
\* another type.
C20_UnknownTypesSkipped ==
    (ev.op = "open" /\ ev.res = "ok") =>
        LET doc == json_load(disk[current_file])
            known == SelectSeq(Get(doc, "items", <<>>), known_type)
        IN /\ Len(canvas) = Len(known)
           /\ \A i \in DOMAIN canvas :
                 /\ canvas[i].type = known[i]["type"]
                 /\ canvas[i].coords = known[i]["coords"]

C20_Witness ==
    /\ ev.op = "open"
    /\ ev.res = "ok"
    /\ ev.pre = "saved"
    /\ current_file = "big.pnp"
    /\ Len(saved.canvas) = 2
    /\ Len(json_load(disk[current_file]).items) = 2
    /\ Len(canvas) = 1
    /\ canvas[1].type = "line"

(***************************************************************************)
(* Brush size: the slider, the Brush Size menu's presets, the Custom...    *)
(* dialog, a dot now and then, New, and Open of every file on disk.        *)
(***************************************************************************)
SliderValues == {1, 50}
Presets == {2, 5, 10}
CustomAnswers == {<<>>, <<1>>, <<50>>}

InitBrush == Start /\ watch = {"size", "open"}

NextBrush ==
    \/ \E value \in SliderValues : OnSizeChange(value)
    \/ \E size \in Presets : SetBrushSize(size)
    \/ \E answer \in CustomAnswers : CustomBrushSize(answer)
    \/ \E p \in Points : OnPress(p)
    \/ OnRelease
    \/ \E answer \in {"no", "cancel"}, filepath \in {""}, w \in {"ok"} :
          FileNew(answer, filepath, w)
    \/ \E answer \in {"no", "cancel"}, filepath \in {""}, w \in {"ok"},
          openpath \in Paths \cup {""} :
          FileOpen(answer, filepath, w, openpath)

SpecBrush == InitBrush /\ [][NextBrush]_vars

\* C10 (as claimed): brush_size is an integer of 1..50 in every reachable
\* state.
C10_BrushSizeInRange == brush_size \in 1..50

(***************************************************************************)
(* Geometry: pencil and fill gestures whose drags may leave the viewport   *)
(* (the pointer is grabbed while the button is down), and undo.            *)
(***************************************************************************)
InsidePoints == {<<1, 1>>}
OutsidePoints == {<<12, 1>>, <<14, 3>>}

InitGeom == Start /\ watch = {"press", "drag"}

NextGeom ==
    \/ \E p \in InsidePoints : OnPress(p)
    \/ \E p \in InsidePoints \cup OutsidePoints : OnDrag(p)
    \/ OnRelease
    \/ \E tool \in {"pencil", "fill"} : SelectTool(tool)
    \/ Undo

SpecGeom == InitGeom /\ [][NextGeom]_vars

\* The estimate of the display list items in the viewport, as a fraction.
fill_percentage(items) == get_fill_percentage(items, ViewW, ViewH)

\* a <= b for fractions with positive denominators
frac_leq(a, b) == a.num * b.den <= b.num * a.den

\* items with the item at place i taken out
without(items, i) ==
    [j \in 1..(Len(items) - 1) |-> IF j < i THEN items[j] ELSE items[j + 1]]

\* C8 (as claimed): a step that adds one item to the display list and takes
\* none away does not lower the fill percentage, and the fill percentage is
\* at most 100 in every state.
C8_FillNeverDecreases ==
    /\ [](frac_leq(fill_percentage(canvas), [num |-> 100, den |-> 1]))
    /\ [][(\E i \in DOMAIN canvas' : without(canvas', i) = canvas) =>
             frac_leq(fill_percentage(canvas), fill_percentage(canvas'))]_vars

\* The area of box b inside a canvas_w x canvas_h viewport (half-pixels).
clamped_area(b, canvas_w, canvas_h) ==
    LET c == clamp_box(b, canvas_w, canvas_h)
    IN Max2(0, c[3] - c[1]) * Max2(0, c[4] - c[2])

\* The sum of the clamped bounding-box areas, one term per item.
RECURSIVE sum_of_areas(_)
sum_of_areas(items) ==
    IF items = <<>> THEN 0
    ELSE clamped_area(bbox(Head(items)), 2 * ViewW, 2 * ViewH) + sum_of_areas(Tail(items))

\* C16 (as claimed): the fill percentage is min(100, 100 * S / (w * h)),
\* S the sum over the items, each counted once, of the area of the item's
\* bounding box inside the w x h viewport.
C16_EstimateIsSumOverItems ==
    LET area == (2 * ViewW) * (2 * ViewH)
        expected == [num |-> Min2(100 * area, 100 * sum_of_areas(canvas)), den |-> area]
        got == fill_percentage(canvas)
    IN got.num * expected.den = expected.num * got.den

====
